---- MODULE Spec2Model ----
(***************************************************************************)
(* Model of nexgen/tools/Metafile.py: the Metafile base class with its     *)
(* cached tree listing, the DectrisMetafile getters and the                *)
(* TristanMetafile getters, over an HDF5 container.                        *)
(*                                                                         *)
(* A Python str is a sequence of one-character strings, so that `in`,      *)
(* ==, lower() and the regular expression are computed character by        *)
(* character.  A Python value is a record whose single field names its    *)
(* type; an exception leaving a method is the value [raise |-> name].      *)
(***************************************************************************)
EXTENDS Integers, Sequences, FiniteSets, TLC

(* ----------------------------- bounds ---------------------------------- *)
\* largest number of leaves (datasets and empty groups) in a container
MaxLeaves == 4
\* largest count stored in nimages / ntrigger
MaxCount == 2
\* cap on the instrumentation counter of handle.visit calls
MaxVisits == 3

(* ----------------------------- strings --------------------------------- *)
\* the spelling of every string literal and node name used below
Chars ==
       "_dectris" :> <<"_","d","e","c","t","r","i","s">>
    @@ "config" :> <<"c","o","n","f","i","g">>
    @@ "nimages" :> <<"n","i","m","a","g","e","s">>
    @@ "ntrigger" :> <<"n","t","r","i","g","g","e","r">>
    @@ "nimage" :> <<"n","i","m","a","g","e">>
    @@ "Total_nimages" :> <<"T","o","t","a","l","_","n","i","m","a","g","e","s">>
    @@ "description" :> <<"d","e","s","c","r","i","p","t","i","o","n">>
    @@ "omega" :> <<"o","m","e","g","a">>
    @@ "mask" :> <<"m","a","s","k">>
    @@ "MASK" :> <<"M","A","S","K">>
    @@ "mask_applied" :> <<"m","a","s","k","_","a","p","p","l","i","e","d">>
    @@ "flatfield" :> <<"f","l","a","t","f","i","e","l","d">>
    @@ "Flatfield" :> <<"F","l","a","t","f","i","e","l","d">>
    @@ "flatfield_correction_applied" :> <<"f","l","a","t","f","i","e","l","d","_","c","o","r","r","e","c","t","i","o","n","_","a","p","p","l","i","e","d">>
    @@ "x_pixels_in_detector" :> <<"x","_","p","i","x","e","l","s","_","i","n","_","d","e","t","e","c","t","o","r">>
    @@ "y_pixels_in_detector" :> <<"y","_","p","i","x","e","l","s","_","i","n","_","d","e","t","e","c","t","o","r">>
    @@ "pixels_in_detector" :> <<"p","i","x","e","l","s","_","i","n","_","d","e","t","e","c","t","o","r">>
    @@ "software_version" :> <<"s","o","f","t","w","a","r","e","_","v","e","r","s","i","o","n">>
    @@ "meta_version" :> <<"m","e","t","a","_","v","e","r","s","i","o","n">>
    @@ "threshold_energy" :> <<"t","h","r","e","s","h","o","l","d","_","e","n","e","r","g","y">>
    @@ "bit_depth_readout" :> <<"b","i","t","_","d","e","p","t","h","_","r","e","a","d","o","u","t">>
    @@ "bit_depth_image" :> <<"b","i","t","_","d","e","p","t","h","_","i","m","a","g","e">>
    @@ "detector_number" :> <<"d","e","t","e","c","t","o","r","_","n","u","m","b","e","r">>
    @@ "detector_readout_time" :> <<"d","e","t","e","c","t","o","r","_","r","e","a","d","o","u","t","_","t","i","m","e">>
    @@ "sensor_material" :> <<"s","e","n","s","o","r","_","m","a","t","e","r","i","a","l">>
    @@ "sensor_thickness" :> <<"s","e","n","s","o","r","_","t","h","i","c","k","n","e","s","s">>
    @@ "pixel_size" :> <<"p","i","x","e","l","_","s","i","z","e">>
    @@ "beam_center" :> <<"b","e","a","m","_","c","e","n","t","e","r">>
    @@ "x_pixel_size" :> <<"x","_","p","i","x","e","l","_","s","i","z","e">>
    @@ "y_pixel_size" :> <<"y","_","p","i","x","e","l","_","s","i","z","e">>
    @@ "beam_center_x" :> <<"b","e","a","m","_","c","e","n","t","e","r","_","x">>
    @@ "beam_center_y" :> <<"b","e","a","m","_","c","e","n","t","e","r","_","y">>
    @@ "wavelength" :> <<"w","a","v","e","l","e","n","g","t","h">>
    @@ "detector_distance" :> <<"d","e","t","e","c","t","o","r","_","d","i","s","t","a","n","c","e">>
    @@ "countrate_correction_count_cutoff" :> <<"c","o","u","n","t","r","a","t","e","_","c","o","r","r","e","c","t","i","o","n","_","c","o","u","n","t","_","c","u","t","o","f","f">>
    @@ "entry" :> <<"e","n","t","r","y">>
    @@ "a" :> <<"a">>
    @@ "b" :> <<"b">>
    @@ "ts_qty_module00" :> <<"t","s","_","q","t","y","_","m","o","d","u","l","e","0","0">>
    @@ "ts_qty_module01" :> <<"t","s","_","q","t","y","_","m","o","d","u","l","e","0","1">>
    @@ "ts_qty_module7" :> <<"t","s","_","q","t","y","_","m","o","d","u","l","e","7">>
    @@ "ts_qty_module123" :> <<"t","s","_","q","t","y","_","m","o","d","u","l","e","1","2","3">>
    @@ "ts_qty_module0x" :> <<"t","s","_","q","t","y","_","m","o","d","u","l","e","0","x">>
    @@ "xts_qty_module00" :> <<"x","t","s","_","q","t","y","_","m","o","d","u","l","e","0","0">>
    @@ "ts_qty_modul00" :> <<"t","s","_","q","t","y","_","m","o","d","u","l","0","0">>
    @@ "ts_qty_module" :> <<"t","s","_","q","t","y","_","m","o","d","u","l","e">>
    @@ "Si" :> <<"S","i">>
    @@ "S" :> <<"S">>
    @@ "CdTe" :> <<"C","d","T","e">>
    @@ "1.2.3" :> <<"1",".","2",".","3">>

LowerTable ==
       "A" :> "a"
    @@ "B" :> "b"
    @@ "C" :> "c"
    @@ "D" :> "d"
    @@ "E" :> "e"
    @@ "F" :> "f"
    @@ "G" :> "g"
    @@ "H" :> "h"
    @@ "I" :> "i"
    @@ "J" :> "j"
    @@ "K" :> "k"
    @@ "L" :> "l"
    @@ "M" :> "m"
    @@ "N" :> "n"
    @@ "O" :> "o"
    @@ "P" :> "p"
    @@ "Q" :> "q"
    @@ "R" :> "r"
    @@ "S" :> "s"
    @@ "T" :> "t"
    @@ "U" :> "u"
    @@ "V" :> "v"
    @@ "W" :> "w"
    @@ "X" :> "x"
    @@ "Y" :> "y"
    @@ "Z" :> "z"


Ord ==
       "." :> 46
    @@ "/" :> 47
    @@ "0" :> 48
    @@ "1" :> 49
    @@ "2" :> 50
    @@ "3" :> 51
    @@ "4" :> 52
    @@ "5" :> 53
    @@ "6" :> 54
    @@ "7" :> 55
    @@ "8" :> 56
    @@ "9" :> 57
    @@ "A" :> 65
    @@ "C" :> 67
    @@ "F" :> 70
    @@ "K" :> 75
    @@ "M" :> 77
    @@ "S" :> 83
    @@ "T" :> 84
    @@ "_" :> 95
    @@ "a" :> 97
    @@ "b" :> 98
    @@ "c" :> 99
    @@ "d" :> 100
    @@ "e" :> 101
    @@ "f" :> 102
    @@ "g" :> 103
    @@ "h" :> 104
    @@ "i" :> 105
    @@ "k" :> 107
    @@ "l" :> 108
    @@ "m" :> 109
    @@ "n" :> 110
    @@ "o" :> 111
    @@ "p" :> 112
    @@ "q" :> 113
    @@ "r" :> 114
    @@ "s" :> 115
    @@ "t" :> 116
    @@ "u" :> 117
    @@ "v" :> 118
    @@ "w" :> 119
    @@ "x" :> 120
    @@ "y" :> 121
    @@ "z" :> 122

\* a string literal of the source
S(x) == Chars[x]

Digits == {"0","1","2","3","4","5","6","7","8","9"}

\* str.lower()
lower(str) ==
    [i \in 1..Len(str) |->
        IF str[i] \in DOMAIN LowerTable THEN LowerTable[str[i]] ELSE str[i]]

\* Python `sub in str` on two strings
StrIn(sub, str) ==
    \E i \in 1..(Len(str) - Len(sub) + 1) :
        \A j \in 1..Len(sub) : str[i + j - 1] = sub[j]

\* Python `x in lst` on a list of strings
ListIn(x, lst) == \E i \in 1..Len(lst) : lst[i] = x

\* [obj for obj in lst if sub in obj]
Containing(lst, sub) == SelectSeq(lst, LAMBDA obj : StrIn(sub, obj))

\* [obj for obj in lst if obj.lower() == name]
LowerEqual(lst, name) == SelectSeq(lst, LAMBDA obj : lower(obj) = name)

\* lst[::-1]
Reversed(lst) == [i \in 1..Len(lst) |-> lst[Len(lst) + 1 - i]]

\* tristan_pattern = re.compile(r"ts_qty_module\d{2}") as a sequence of
\* items, each a literal character or the class \d
tristan_pattern ==
    [i \in 1..Len(S("ts_qty_module")) |-> [lit |-> S("ts_qty_module")[i]]]
    \o <<[cls |-> "d"], [cls |-> "d"]>>

ItemMatches(item, c) ==
    IF "lit" \in DOMAIN item THEN c = item.lit ELSE c \in Digits

\* the number of characters the pattern consumes at the start of str, or -1:
\* the pattern has no alternation and no variable repetition
RECURSIVE MatchPrefix(_, _)
MatchPrefix(pat, str) ==
    IF pat = <<>> THEN 0
    ELSE IF str = <<>> \/ ~ItemMatches(Head(pat), Head(str)) THEN -1
    ELSE LET rest == MatchPrefix(Tail(pat), Tail(str))
         IN  IF rest = -1 THEN -1 ELSE rest + 1

\* pattern.match(str) is not None: the pattern at the start of str only
fullmatch_prefix(pat, str) == MatchPrefix(pat, str) # -1

\* pattern.fullmatch(str) is not None
fullmatch(pat, str) == MatchPrefix(pat, str) = Len(str)

(* ------------------------------ values --------------------------------- *)
None == [none |-> TRUE]
Raise(e) == [raise |-> e]
IntV(n) == [int |-> n]
BytesV(b) == [bytes |-> b]
StrV(s) == [str |-> s]
BoolV(b) == [bool |-> b]
ArrayV(es) == [array |-> es]
ListV(es) == [list |-> es]
TupleV(es) == [tuple |-> es]
DictV(f) == [dict |-> f]

IsRaise(v) == "raise" \in DOMAIN v
IsInt(v) == "int" \in DOMAIN v
IsBytes(v) == "bytes" \in DOMAIN v
IsArray(v) == "array" \in DOMAIN v

\* bytes.decode()
decode(v) == StrV(v.bytes)

(* ----------------------------- container ------------------------------- *)
\* A container (h5py.File) is a set of nodes.  A node has a path, the
\* sequence of names from the root, and is a group or a dataset; a dataset
\* has shape "array" (one dimension, data its elements) or "scalar" (no
\* dimension, data its one element).
Group(p) == [path |-> p, kind |-> "group", shape |-> "none", data |-> <<>>]
Array(p, es) == [path |-> p, kind |-> "dataset", shape |-> "array", data |-> es]
Scalar(p, e) == [path |-> p, kind |-> "dataset", shape |-> "scalar", data |-> <<e>>]

\* the name h5py gives an object: its path joined by "/"
RECURSIVE Text(_)
Text(p) == IF Len(p) = 1 THEN p[1] ELSE p[1] \o <<"/">> \o Text(Tail(p))

\* the order of HDF5's name index: by character code, a prefix first
NameLess(a, b) ==
    \E i \in 1..Len(b) :
        /\ i <= Len(a) + 1
        /\ \A j \in 1..(i - 1) : a[j] = b[j]
        /\ \/ i = Len(a) + 1
           \/ Ord[a[i]] < Ord[b[i]]

Children(h, prefix) ==
    {n \in h : /\ Len(n.path) = Len(prefix) + 1
               /\ SubSeq(n.path, 1, Len(prefix)) = prefix}

Last(p) == p[Len(p)]

RECURSIVE InNameOrder(_)
InNameOrder(nodes) ==
    IF nodes = {} THEN <<>>
    ELSE LET first == CHOOSE n \in nodes :
                          \A m \in nodes \ {n} : NameLess(Last(n.path), Last(m.path))
         IN  <<first>> \o InNameOrder(nodes \ {first})

\* Group.visit(func): func is called with the name of every object below
\* the group, depth first, the members of a group in name order
RECURSIVE visit(_, _)
visit(h, prefix) ==
    LET kids == InNameOrder(Children(h, prefix))
        RECURSIVE From(_)
        From(i) ==
            IF i > Len(kids) THEN <<>>
            ELSE <<Text(kids[i].path)>>
                 \o (IF kids[i].kind = "group" THEN visit(h, kids[i].path) ELSE <<>>)
                 \o From(i + 1)
    IN  From(1)

\* Group.keys(): the names of the members of the root group
keys(h) == {n.path[1] : n \in {m \in h : Len(m.path) = 1}}

HasPath(h, key) == \E n \in h : Text(n.path) = key
NodeAt(h, key) == CHOOSE n \in h : Text(n.path) = key

\* Metafile.__getitem__: self._handle[key]
getitem(h, key) == IF HasPath(h, key) THEN NodeAt(h, key) ELSE Raise("KeyError")

\* node[0]
Index0(node) ==
    IF IsRaise(node) THEN node
    ELSE IF node.kind = "group" THEN Raise("TypeError")
    ELSE IF node.shape = "scalar" THEN Raise("ValueError")
    ELSE IF node.data = <<>> THEN Raise("IndexError")
    ELSE node.data[1]

\* node[()]
ReadAll(node) ==
    IF node.kind = "group" THEN Raise("TypeError")
    ELSE IF node.shape = "scalar" THEN node.data[1]
    ELSE ArrayV(node.data)

(* ------------------------------- state --------------------------------- *)
VARIABLES
    handle,   \* the container behind self._handle; never written
    cls,      \* the class of the instance: "DectrisMetafile" or "TristanMetafile"
    self,     \* the instance's cached_property slots, and the number of
              \* handle.visit calls made so far (instrumentation)
    lastOp,   \* the method or property called last
    result    \* what that call returned, or the exception it raised

vars == <<handle, cls, self, lastOp, result>>

NotCached == [cached |-> FALSE]
Cached(v) == [cached |-> TRUE, val |-> v]

\* the instance right after __init__
Fresh ==
    [walk |-> NotCached, hasMask |-> NotCached, hasFlatfield |-> NotCached,
     hasDectrisGroup |-> NotCached, hasConfig |-> NotCached, visits |-> 0]

\* A method is an operator of the container h and the instance s that gives
\* [ret |-> the value returned or raised, s |-> the instance afterwards].
Returns(v, s) == [ret |-> v, s |-> s]

(* ------------------------------ Metafile ------------------------------- *)
\* walk as a plain property: every read traverses the container again
walk_uncached(h, s) ==
    LET obj_list == visit(h, <<>>)
    IN  Returns(obj_list, [s EXCEPT !.walk = Cached(obj_list), !.visits = @ + 1])

\* walk caching an iterator that the first read has used up
walk_exhausted(h, s) ==
    IF s.walk.cached THEN Returns(<<>>, s)
    ELSE LET obj_list == visit(h, <<>>)
         IN  Returns(obj_list,
                     [s EXCEPT !.walk = Cached(obj_list), !.visits = @ + 1])

\* @cached_property walk
walk(h, s) ==
    IF s.walk.cached THEN Returns(s.walk.val, s)
    ELSE LET obj_list == visit(h, <<>>)
         IN  Returns(obj_list,
                     [s EXCEPT !.walk = Cached(obj_list), !.visits = @ + 1])

\* the assignment a cached_property makes on its first read
Store(s, name, v) == Returns(v, [s EXCEPT ![name] = Cached(v)])

\* @cached_property hasMask; w is the read of self.walk in its body
hasMask_body(w) == Store(w.s, "hasMask", ListIn(S("mask"), w.ret))
hasMask(h, s) ==
    IF s.hasMask.cached THEN Returns(s.hasMask.val, s)
    ELSE hasMask_body(walk(h, s))

\* @cached_property hasFlatfield; w is the read of self.walk in its body
hasFlatfield_body(w) == Store(w.s, "hasFlatfield", ListIn(S("flatfield"), w.ret))
hasFlatfield(h, s) ==
    IF s.hasFlatfield.cached THEN Returns(s.hasFlatfield.val, s)
    ELSE hasFlatfield_body(walk(h, s))

(* --------------------------- DectrisMetafile --------------------------- *)
\* @cached_property hasDectrisGroup
hasDectrisGroup(h, s) ==
    IF s.hasDectrisGroup.cached THEN Returns(s.hasDectrisGroup.val, s)
    ELSE Store(s, "hasDectrisGroup",
               /\ S("_dectris") \in keys(h)
               /\ getitem(h, S("_dectris")).kind = "group")

\* @cached_property hasConfig
hasConfig(h, s) ==
    IF s.hasConfig.cached THEN Returns(s.hasConfig.val, s)
    ELSE Store(s, "hasConfig", S("config") \in keys(h))

\* the loop body without the decode of a byte-string element
ConfigValue_undecoded(node) ==
    LET v == ReadAll(node)
    IN  IF IsRaise(v) THEN v
        ELSE IF IsInt(v) THEN Raise("TypeError")
        ELSE LET n == IF IsArray(v) THEN Len(v.array) ELSE Len(v.bytes)
             IN  IF n # 1 THEN v
                 ELSE IF IsArray(v) THEN v.array[1] ELSE IntV(Ord[v.bytes[1]])

\* the body of the loop of read_dectris_config for one member v of the group
ConfigValue(node) ==
    LET v == ReadAll(node)
    IN  IF IsRaise(v) THEN v
        ELSE IF IsInt(v) THEN Raise("TypeError")    \* len() of a number
        ELSE LET n == IF IsArray(v) THEN Len(v.array) ELSE Len(v.bytes)
             IN  IF n # 1 THEN v
                 ELSE LET e == IF IsArray(v) THEN v.array[1]
                                ELSE IntV(Ord[v.bytes[1]])
                      IN  IF IsBytes(e) THEN decode(e) ELSE e

\* the first exception among vals, in order, or None
FirstRaise(vals) ==
    IF \E i \in 1..Len(vals) : IsRaise(vals[i])
    THEN vals[CHOOSE i \in 1..Len(vals) :
                  /\ IsRaise(vals[i])
                  /\ \A j \in 1..(i - 1) : ~IsRaise(vals[j])]
    ELSE None

read_dectris_config(h) ==
    IF ~HasPath(h, S("_dectris")) THEN Raise("KeyError")
    ELSE IF NodeAt(h, S("_dectris")).kind # "group" THEN Raise("AttributeError")
    ELSE LET items == InNameOrder(Children(h, <<S("_dectris")>>))
             vals == [i \in 1..Len(items) |-> ConfigValue(items[i])]
         IN  IF FirstRaise(vals) # None THEN FirstRaise(vals)
             ELSE DictV([k \in {Last(items[i].path) : i \in 1..Len(items)} |->
                            vals[CHOOSE i \in 1..Len(items) : Last(items[i].path) = k]])

\* the truth of `v >= k`, `v == k`, `v > k` for a config value v and an int k
PyGE(v, k) ==
    IF IsInt(v) THEN BoolV(v.int >= k)
    ELSE IF IsArray(v) THEN Raise("ValueError")
    ELSE Raise("TypeError")
PyEQ(v, k) ==
    IF IsInt(v) THEN BoolV(v.int = k)
    ELSE IF IsArray(v) THEN Raise("ValueError")
    ELSE BoolV(FALSE)
PyGT(v, k) ==
    IF IsInt(v) THEN BoolV(v.int > k)
    ELSE IF IsArray(v) THEN Raise("ValueError")
    ELSE Raise("TypeError")

\* config[key]
DictGet(config, key) ==
    IF key \in DOMAIN config.dict THEN config.dict[key] ELSE Raise("KeyError")

\* `ax and by`, where ax is a comparison of the config value x and by one
\* of the config value y: y is looked up only when ax is true
AndOf(x, ax, y, by) ==
    IF IsRaise(x) THEN x
    ELSE IF IsRaise(ax) THEN ax
    ELSE IF ~ax.bool THEN BoolV(FALSE)
    ELSE IF IsRaise(y) THEN y
    ELSE by

\* the if / elif with the two returns exchanged
ImagesFromConfig_swapped(config) ==
    LET nimages == DictGet(config, S("nimages"))
        ntrigger == DictGet(config, S("ntrigger"))
        first == AndOf(nimages, PyGE(nimages, 1), ntrigger, PyEQ(ntrigger, 1))
        second == AndOf(nimages, PyEQ(nimages, 1), ntrigger, PyGT(ntrigger, 1))
    IN  IF IsRaise(first) THEN first
        ELSE IF first.bool THEN ntrigger
        ELSE IF IsRaise(second) THEN second
        ELSE IF second.bool THEN nimages
        ELSE None

\* the if / elif with an else that returns nimages
ImagesFromConfig_else(config) ==
    LET nimages == DictGet(config, S("nimages"))
        ntrigger == DictGet(config, S("ntrigger"))
        first == AndOf(nimages, PyGE(nimages, 1), ntrigger, PyEQ(ntrigger, 1))
        second == AndOf(nimages, PyEQ(nimages, 1), ntrigger, PyGT(ntrigger, 1))
    IN  IF IsRaise(first) THEN first
        ELSE IF first.bool THEN nimages
        ELSE IF IsRaise(second) THEN second
        ELSE IF second.bool THEN ntrigger
        ELSE nimages

\* the if / elif of get_number_of_images on a config that was read
ImagesFromConfig(config) ==
    LET nimages == DictGet(config, S("nimages"))
        ntrigger == DictGet(config, S("ntrigger"))
        first == AndOf(nimages, PyGE(nimages, 1), ntrigger, PyEQ(ntrigger, 1))
        second == AndOf(nimages, PyEQ(nimages, 1), ntrigger, PyGT(ntrigger, 1))
    IN  IF IsRaise(first) THEN first
        ELSE IF first.bool THEN nimages
        ELSE IF IsRaise(second) THEN second
        ELSE IF second.bool THEN ntrigger
        ELSE None

\* the branch of get_number_of_images with the _dectris group
ImagesOf(config) ==
    IF IsRaise(config) THEN config ELSE ImagesFromConfig(config)

\* the branch without it; w is the read of self.walk
ImagesFromWalk(h, w) ==
    LET _loc == Containing(w.ret, S("nimages"))
    IN  IF _loc = <<>> THEN Returns(Raise("IndexError"), w.s)
        ELSE Returns(Index0(getitem(h, _loc[1])), w.s)

\* g is the read of self.hasDectrisGroup
get_number_of_images_body(h, g) ==
    IF g.ret THEN Returns(ImagesOf(read_dectris_config(h)), g.s)
    ELSE ImagesFromWalk(h, walk(h, g.s))

get_number_of_images(h, s) == get_number_of_images_body(h, hasDectrisGroup(h, s))

\* [self.__getitem__(i)[0] for i in _loc]
ReadEach(h, _loc) == [i \in 1..Len(_loc) |-> Index0(getitem(h, _loc[i]))]

\* get_detector_size without the [::-1]
get_detector_size_unreversed(h, s) ==
    LET w == walk(h, s)
        _loc == Containing(w.ret, S("pixels_in_detector"))
        det_size == ReadEach(h, _loc)
    IN  IF FirstRaise(det_size) # None THEN Returns(FirstRaise(det_size), w.s)
        ELSE IF det_size = <<>> THEN Returns(None, w.s)
        ELSE Returns(TupleV(det_size), w.s)

get_detector_size(h, s) ==
    LET w == walk(h, s)
        _loc == Containing(w.ret, S("pixels_in_detector"))
        det_size == ReadEach(h, _loc)
    IN  IF FirstRaise(det_size) # None THEN Returns(FirstRaise(det_size), w.s)
        ELSE IF det_size = <<>> THEN Returns(None, w.s)
        ELSE Returns(TupleV(Reversed(det_size)), w.s)

get_pixel_size(h, s) ==
    LET w == walk(h, s)
        _loc == Containing(w.ret, S("pixel_size"))
        pix == ReadEach(h, _loc)
    IN  IF FirstRaise(pix) # None THEN Returns(FirstRaise(pix), w.s)
        ELSE IF pix = <<>> THEN Returns(None, w.s)
        ELSE Returns(ListV(pix), w.s)

get_beam_center(h, s) ==
    LET w == walk(h, s)
        _loc == Containing(w.ret, S("beam_center"))
        bc == ReadEach(h, _loc)
    IN  IF FirstRaise(bc) # None THEN Returns(FirstRaise(bc), w.s)
        ELSE IF bc = <<>> THEN Returns(None, w.s)
        ELSE Returns(ListV(bc), w.s)

get_wavelength(h, s) ==
    LET w == walk(h, s)
        _loc == Containing(w.ret, S("wavelength"))
    IN  IF _loc = <<>> THEN Returns(None, w.s)
        ELSE Returns(Index0(getitem(h, _loc[1])), w.s)

get_detector_distance(h, s) ==
    LET w == walk(h, s)
        _loc == Containing(w.ret, S("detector_distance"))
    IN  IF _loc = <<>> THEN Returns(None, w.s)
        ELSE Returns(Index0(getitem(h, _loc[1])), w.s)

get_saturation_value(h, s) ==
    LET w == walk(h, s)
        _loc == Containing(w.ret, S("countrate_correction_count_cutoff"))
    IN  IF _loc = <<>> THEN Returns(None, w.s)
        ELSE Returns(Index0(getitem(h, _loc[1])), w.s)

\* the return of get_sensor_information; s is the instance after both reads
\* of self.walk
SensorTuple(h, _loc_material, _loc_thickness, s) ==
    IF _loc_material = <<>> THEN Returns(Raise("IndexError"), s)
    ELSE IF IsRaise(Index0(getitem(h, _loc_material[1])))
    THEN Returns(Index0(getitem(h, _loc_material[1])), s)
    ELSE IF _loc_thickness = <<>> THEN Returns(Raise("IndexError"), s)
    ELSE IF IsRaise(Index0(getitem(h, _loc_thickness[1])))
    THEN Returns(Index0(getitem(h, _loc_thickness[1])), s)
    ELSE Returns(TupleV(<<Index0(getitem(h, _loc_material[1])),
                          Index0(getitem(h, _loc_thickness[1]))>>), s)

\* w2 is the second read of self.walk
get_sensor_information_thickness(h, _loc_material, w2) ==
    SensorTuple(h, _loc_material, Containing(w2.ret, S("sensor_thickness")), w2.s)

\* w1 is the first read of self.walk
get_sensor_information_material(h, w1) ==
    get_sensor_information_thickness(
        h, Containing(w1.ret, S("sensor_material")), walk(h, w1.s))

get_sensor_information(h, s) == get_sensor_information_material(h, walk(h, s))

get_bit_depth_image(h, s) ==
    LET w == walk(h, s)
        _loc == Containing(w.ret, S("bit_depth_image"))
    IN  IF _loc = <<>> THEN Returns(None, w.s)
        ELSE Returns(Index0(getitem(h, _loc[1])), w.s)

\* the return of find_mask / find_flatfield when the marker is present
MarkerTuple(marker_path, applied_path, s) ==
    IF marker_path = <<>> THEN Returns(Raise("IndexError"), s)
    ELSE IF applied_path # <<>>
    THEN Returns(TupleV(<<StrV(marker_path[1]), StrV(applied_path[1])>>), s)
    ELSE Returns(TupleV(<<StrV(marker_path[1]), None>>), s)

\* w2 is the second read of self.walk
find_mask_applied(mask_path, w2) ==
    MarkerTuple(mask_path, Containing(w2.ret, S("mask_applied")), w2.s)

\* w1 is the first read of self.walk
find_mask_path(h, w1) ==
    find_mask_applied(LowerEqual(w1.ret, S("mask")), walk(h, w1.s))

\* m is the read of self.hasMask
find_mask_body(h, m) ==
    IF m.ret THEN find_mask_path(h, walk(h, m.s))
    ELSE Returns(TupleV(<<None, None>>), m.s)

find_mask(h, s) == find_mask_body(h, hasMask(h, s))

\* w2 is the second read of self.walk
find_flatfield_applied(flatfield_path, w2) ==
    MarkerTuple(flatfield_path,
                Containing(w2.ret, S("flatfield_correction_applied")), w2.s)

\* w1 is the first read of self.walk
find_flatfield_path(h, w1) ==
    find_flatfield_applied(LowerEqual(w1.ret, S("flatfield")), walk(h, w1.s))

\* f is the read of self.hasFlatfield
find_flatfield_body(h, f) ==
    IF f.ret THEN find_flatfield_path(h, walk(h, f.s))
    ELSE Returns(TupleV(<<None, None>>), f.s)

find_flatfield(h, s) == find_flatfield_body(h, hasFlatfield(h, s))

find_software_version(h, s) ==
    LET w == walk(h, s)
        _loc == Containing(w.ret, S("software_version"))
    IN  IF _loc = <<>> THEN Returns(None, w.s) ELSE Returns(StrV(_loc[1]), w.s)

find_threshold_energy(h, s) ==
    LET w == walk(h, s)
        _loc == Containing(w.ret, S("threshold_energy"))
    IN  IF _loc = <<>> THEN Returns(None, w.s) ELSE Returns(StrV(_loc[1]), w.s)

find_bit_depth_readout(h, s) ==
    LET w == walk(h, s)
        _loc == Containing(w.ret, S("bit_depth_readout"))
    IN  IF _loc = <<>> THEN Returns(None, w.s) ELSE Returns(StrV(_loc[1]), w.s)

\* find_bit_depth_image taking the last match, _loc[-1]
find_bit_depth_image_last(h, s) ==
    LET w == walk(h, s)
        _loc == Containing(w.ret, S("bit_depth_image"))
    IN  IF _loc = <<>> THEN Returns(None, w.s) ELSE Returns(StrV(_loc[Len(_loc)]), w.s)

find_bit_depth_image(h, s) ==
    LET w == walk(h, s)
        _loc == Containing(w.ret, S("bit_depth_image"))
    IN  IF _loc = <<>> THEN Returns(None, w.s) ELSE Returns(StrV(_loc[1]), w.s)

find_detector_number(h, s) ==
    LET w == walk(h, s)
        _loc == Containing(w.ret, S("detector_number"))
    IN  IF _loc = <<>> THEN Returns(None, w.s) ELSE Returns(StrV(_loc[1]), w.s)

find_detector_readout_time(h, s) ==
    LET w == walk(h, s)
        _loc == Containing(w.ret, S("detector_readout_time"))
    IN  IF _loc = <<>> THEN Returns(None, w.s) ELSE Returns(StrV(_loc[1]), w.s)

(* --------------------------- TristanMetafile --------------------------- *)
\* @staticmethod isTristan(filename): h is the content of the file opened
isTristan(h) ==
    LET res == {k \in keys(h) : fullmatch(tristan_pattern, k)}
    IN  BoolV(res # {})

find_number_of_modules(h, s) ==
    LET n_modules == {k \in keys(h) : fullmatch(tristan_pattern, k)}
    IN  Returns(IntV(Cardinality(n_modules)), s)

Tristan_find_software_version(h, s) ==
    LET w == walk(h, s)
        _loc == Containing(w.ret, S("software_version"))
    IN  IF _loc = <<>> THEN Returns(None, w.s) ELSE Returns(StrV(_loc[1]), w.s)

find_meta_version(h, s) ==
    LET w == walk(h, s)
        _loc == Containing(w.ret, S("meta_version"))
    IN  IF _loc = <<>> THEN Returns(None, w.s) ELSE Returns(StrV(_loc[1]), w.s)

(* ------------------------------- calls --------------------------------- *)
\* one call of a method or one read of a property on the instance
Call(op, r) ==
    /\ self.visits < MaxVisits
    /\ self' = r.s
    /\ result' = r.ret
    /\ lastOp' = op
    /\ UNCHANGED <<handle, cls>>

IsDectrisMetafile == cls = "DectrisMetafile"
IsTristanMetafile == cls = "TristanMetafile"

Read_walk ==
    LET r == walk(handle, self) IN Call("walk", Returns(ListV(r.ret), r.s))
Read_hasMask ==
    LET r == hasMask(handle, self) IN Call("hasMask", Returns(BoolV(r.ret), r.s))
Read_hasFlatfield ==
    LET r == hasFlatfield(handle, self)
    IN  Call("hasFlatfield", Returns(BoolV(r.ret), r.s))
Read_hasDectrisGroup ==
    /\ IsDectrisMetafile
    /\ LET r == hasDectrisGroup(handle, self)
       IN  Call("hasDectrisGroup", Returns(BoolV(r.ret), r.s))
Read_hasConfig ==
    /\ IsDectrisMetafile
    /\ LET r == hasConfig(handle, self)
       IN  Call("hasConfig", Returns(BoolV(r.ret), r.s))

Do_read_dectris_config ==
    IsDectrisMetafile /\ Call("read_dectris_config", Returns(read_dectris_config(handle), self))
Do_get_number_of_images ==
    IsDectrisMetafile /\ Call("get_number_of_images", get_number_of_images(handle, self))
Do_get_detector_size ==
    IsDectrisMetafile /\ Call("get_detector_size", get_detector_size(handle, self))
Do_get_pixel_size ==
    IsDectrisMetafile /\ Call("get_pixel_size", get_pixel_size(handle, self))
Do_get_beam_center ==
    IsDectrisMetafile /\ Call("get_beam_center", get_beam_center(handle, self))
Do_get_wavelength ==
    IsDectrisMetafile /\ Call("get_wavelength", get_wavelength(handle, self))
Do_get_detector_distance ==
    IsDectrisMetafile /\ Call("get_detector_distance", get_detector_distance(handle, self))
Do_get_saturation_value ==
    IsDectrisMetafile /\ Call("get_saturation_value", get_saturation_value(handle, self))
Do_get_sensor_information ==
    IsDectrisMetafile /\ Call("get_sensor_information", get_sensor_information(handle, self))
Do_get_bit_depth_image ==
    IsDectrisMetafile /\ Call("get_bit_depth_image", get_bit_depth_image(handle, self))
Do_find_mask ==
    IsDectrisMetafile /\ Call("find_mask", find_mask(handle, self))
Do_find_flatfield ==
    IsDectrisMetafile /\ Call("find_flatfield", find_flatfield(handle, self))
Do_find_software_version ==
    IsDectrisMetafile /\ Call("find_software_version", find_software_version(handle, self))
Do_find_threshold_energy ==
    IsDectrisMetafile /\ Call("find_threshold_energy", find_threshold_energy(handle, self))
Do_find_bit_depth_readout ==
    IsDectrisMetafile /\ Call("find_bit_depth_readout", find_bit_depth_readout(handle, self))
Do_find_bit_depth_image ==
    IsDectrisMetafile /\ Call("find_bit_depth_image", find_bit_depth_image(handle, self))
Do_find_detector_number ==
    IsDectrisMetafile /\ Call("find_detector_number", find_detector_number(handle, self))
Do_find_detector_readout_time ==
    IsDectrisMetafile /\ Call("find_detector_readout_time", find_detector_readout_time(handle, self))

\* the static classifier opens the file of the handle by its name
Do_isTristan ==
    Call("isTristan", Returns(isTristan(handle), self))
Do_find_number_of_modules ==
    IsTristanMetafile /\ Call("find_number_of_modules", find_number_of_modules(handle, self))
Do_Tristan_find_software_version ==
    IsTristanMetafile /\ Call("find_software_version", Tristan_find_software_version(handle, self))
Do_find_meta_version ==
    IsTristanMetafile /\ Call("find_meta_version", find_meta_version(handle, self))

(* ----------------------------- containers ------------------------------ *)
\* A container is given by its leaves (datasets and empty groups); the
\* groups above them are added.  No two leaves share a path and no leaf lies
\* below another.
Ancestors(leaves) ==
    UNION {{Group(SubSeq(n.path, 1, k)) : k \in 1..(Len(n.path) - 1)} : n \in leaves}

WellFormed(leaves) ==
    \A a, b \in leaves :
        /\ a.path = b.path => a = b
        /\ ~(/\ Len(a.path) < Len(b.path)
             /\ SubSeq(b.path, 1, Len(a.path)) = a.path)

ContainersOver(cands) ==
    {leaves \cup Ancestors(leaves) :
        leaves \in {L \in SUBSET cands : Cardinality(L) <= MaxLeaves /\ WellFormed(L)}}

Counts == 0..MaxCount

\* containers with and without the _dectris group, its members nimages and
\* ntrigger as counts, as a two-element array and as a byte-string, and
\* datasets whose name contains "nimages" (or nearly does) before and after
\* "_dectris" in name order
ImagesLeaves ==
    {Group(<<S("_dectris")>>), Array(<<S("_dectris")>>, <<IntV(1)>>)}
    \cup {Array(<<S("_dectris"), S("nimages")>>, <<IntV(n)>>) : n \in Counts}
    \cup {Array(<<S("_dectris"), S("ntrigger")>>, <<IntV(t)>>) : t \in Counts}
    \cup {Array(<<S("_dectris"), S("nimages")>>, <<IntV(1), IntV(1)>>),
          Array(<<S("_dectris"), S("ntrigger")>>, <<BytesV(S("S"))>>)}
    \cup {Array(<<S("Total_nimages")>>, <<IntV(MaxCount + 1)>>),
          Array(<<S("nimages")>>, <<IntV(MaxCount + 2)>>),
          Array(<<S("nimage")>>, <<IntV(MaxCount + 3)>>)}

\* members of _dectris and datasets of every shape and element type
ConfigLeaves ==
    {Array(<<S("_dectris"), S("description")>>, <<BytesV(S("Si"))>>),
     Array(<<S("_dectris"), S("description")>>, <<BytesV(S("Si")), BytesV(S("CdTe"))>>),
     Scalar(<<S("_dectris"), S("description")>>, BytesV(S("S"))),
     Array(<<S("_dectris"), S("nimages")>>, <<IntV(1)>>),
     Scalar(<<S("_dectris"), S("ntrigger")>>, IntV(1)),
     Array(<<S("_dectris"), S("software_version")>>, <<BytesV(S("1.2.3"))>>),
     Array(<<S("sensor_material")>>, <<BytesV(S("Si"))>>),
     Array(<<S("sensor_material")>>, <<BytesV(S("CdTe")), BytesV(S("Si"))>>),
     Array(<<S("sensor_thickness")>>, <<IntV(1)>>),
     Array(<<S("wavelength")>>, <<IntV(2)>>),
     Array(<<S("bit_depth_image")>>, <<BytesV(S("S"))>>),
     Array(<<S("detector_distance")>>, <<>>)}

\* datasets whose name contains "pixels_in_detector", "pixel_size" or
\* "beam_center", and a group of that name
GeometryLeaves ==
    {Array(<<S("x_pixels_in_detector")>>, <<IntV(3)>>),
     Array(<<S("y_pixels_in_detector")>>, <<IntV(4)>>),
     Array(<<S("entry"), S("x_pixels_in_detector")>>, <<IntV(5), IntV(6)>>),
     Array(<<S("pixels_in_detector"), S("omega")>>, <<IntV(7)>>),
     Array(<<S("x_pixels_in_detector")>>, <<>>),
     Scalar(<<S("y_pixels_in_detector")>>, IntV(8)),
     Array(<<S("x_pixel_size")>>, <<IntV(1)>>),
     Array(<<S("y_pixel_size")>>, <<IntV(2)>>),
     Array(<<S("beam_center_x")>>, <<IntV(1)>>),
     Array(<<S("beam_center_y")>>, <<IntV(2)>>),
     Array(<<S("omega")>>, <<IntV(9)>>)}

\* the marker nodes, their companions, and nodes that differ from a marker
\* in case or in place
MarkerLeaves ==
    {Array(<<S("mask")>>, <<IntV(0)>>),
     Array(<<S("MASK")>>, <<IntV(1)>>),
     Array(<<S("mask_applied")>>, <<IntV(1)>>),
     Array(<<S("entry"), S("mask")>>, <<IntV(0)>>),
     Array(<<S("entry"), S("mask_applied")>>, <<IntV(1)>>),
     Array(<<S("flatfield")>>, <<IntV(0)>>),
     Array(<<S("Flatfield")>>, <<IntV(1)>>),
     Array(<<S("flatfield_correction_applied")>>, <<IntV(1)>>),
     Array(<<S("entry"), S("flatfield")>>, <<IntV(0)>>),
     Array(<<S("entry"), S("flatfield_correction_applied")>>, <<IntV(1)>>)}

Needles ==
    {S("software_version"), S("threshold_energy"), S("bit_depth_readout"),
     S("bit_depth_image"), S("detector_number"), S("detector_readout_time"),
     S("meta_version")}

\* for every substring searched, a dataset of that name at the root and one
\* in the group "a"
FindLeaves ==
    {Array(<<n>>, <<IntV(1)>>) : n \in Needles}
    \cup {Array(<<S("a"), n>>, <<IntV(2)>>) : n \in Needles}

\* root members that match the module pattern, and ones that nearly do
TristanLeaves ==
    {Group(<<S("ts_qty_module00")>>), Group(<<S("ts_qty_module01")>>),
     Group(<<S("ts_qty_module7")>>), Group(<<S("ts_qty_module123")>>),
     Group(<<S("ts_qty_module0x")>>), Group(<<S("xts_qty_module00")>>),
     Group(<<S("ts_qty_modul00")>>),
     Array(<<S("entry"), S("ts_qty_module00")>>, <<IntV(1)>>),
     Array(<<S("software_version")>>, <<BytesV(S("1.2.3"))>>),
     Array(<<S("entry"), S("meta_version")>>, <<IntV(1)>>)}

\* a little of everything, for calls in every order
MixedLeaves ==
    {Array(<<S("mask")>>, <<IntV(0)>>),
     Array(<<S("MASK")>>, <<IntV(1)>>),
     Array(<<S("flatfield")>>, <<IntV(0)>>),
     Array(<<S("_dectris"), S("nimages")>>, <<IntV(1)>>),
     Array(<<S("_dectris"), S("ntrigger")>>, <<IntV(2)>>),
     Array(<<S("nimages")>>, <<IntV(3)>>),
     Array(<<S("software_version")>>, <<BytesV(S("1.2.3"))>>)}

(* -------------------------- specifications ----------------------------- *)
InitOver(cands, classes) ==
    /\ handle \in ContainersOver(cands)
    /\ cls \in classes
    /\ self = Fresh
    /\ lastOp = "none"
    /\ result = None

\* image count
InitImages == InitOver(ImagesLeaves, {"DectrisMetafile"})
NextImages ==
    \/ Do_get_number_of_images
    \/ Read_hasDectrisGroup
    \/ Read_walk
SpecImages == InitImages /\ [][NextImages]_vars

\* configuration and value-returning getters
InitConfig == InitOver(ConfigLeaves, {"DectrisMetafile"})
NextConfig ==
    \/ Do_read_dectris_config
    \/ Do_get_sensor_information
    \/ Do_get_wavelength
    \/ Do_get_detector_distance
    \/ Do_get_saturation_value
    \/ Do_get_bit_depth_image
    \/ Read_hasConfig
SpecConfig == InitConfig /\ [][NextConfig]_vars

\* geometry
InitGeometry == InitOver(GeometryLeaves, {"DectrisMetafile"})
NextGeometry ==
    \/ Do_get_detector_size
    \/ Do_get_pixel_size
    \/ Do_get_beam_center
SpecGeometry == InitGeometry /\ [][NextGeometry]_vars

\* mask and flatfield
InitMarker == InitOver(MarkerLeaves, {"DectrisMetafile"})
NextMarker ==
    \/ Do_find_mask
    \/ Do_find_flatfield
    \/ Read_hasMask
    \/ Read_hasFlatfield
SpecMarker == InitMarker /\ [][NextMarker]_vars

\* path-returning getters of both classes
InitFind == InitOver(FindLeaves, {"DectrisMetafile", "TristanMetafile"})
NextFind ==
    \/ Do_find_software_version
    \/ Do_find_threshold_energy
    \/ Do_find_bit_depth_readout
    \/ Do_find_bit_depth_image
    \/ Do_find_detector_number
    \/ Do_find_detector_readout_time
    \/ Do_Tristan_find_software_version
    \/ Do_find_meta_version
SpecFind == InitFind /\ [][NextFind]_vars

\* module count
InitTristan == InitOver(TristanLeaves, {"TristanMetafile"})
NextTristan ==
    \/ Do_isTristan
    \/ Do_find_number_of_modules
    \/ Do_Tristan_find_software_version
    \/ Do_find_meta_version
SpecTristan == InitTristan /\ [][NextTristan]_vars

\* every call, in every order
Init == InitOver(MixedLeaves, {"DectrisMetafile", "TristanMetafile"})
Next ==
    \/ Read_walk
    \/ Read_hasMask
    \/ Read_hasFlatfield
    \/ Read_hasDectrisGroup
    \/ Read_hasConfig
    \/ Do_read_dectris_config
    \/ Do_get_number_of_images
    \/ Do_get_detector_size
    \/ Do_get_pixel_size
    \/ Do_get_beam_center
    \/ Do_get_wavelength
    \/ Do_get_detector_distance
    \/ Do_get_saturation_value
    \/ Do_get_sensor_information
    \/ Do_get_bit_depth_image
    \/ Do_find_mask
    \/ Do_find_flatfield
    \/ Do_find_software_version
    \/ Do_find_threshold_energy
    \/ Do_find_bit_depth_readout
    \/ Do_find_bit_depth_image
    \/ Do_find_detector_number
    \/ Do_find_detector_readout_time
    \/ Do_isTristan
    \/ Do_find_number_of_modules
    \/ Do_Tristan_find_software_version
    \/ Do_find_meta_version
Spec == Init /\ [][Next]_vars

(* ------------------------------ properties ----------------------------- *)
\* the traversal order of the container
Traversal == visit(handle, <<>>)

\* the paths of the traversal that contain sub, in traversal order
PathsWith(sub) == SelectSeq(Traversal, LAMBDA p : StrIn(sub, p))

\* the node at a path of the traversal
NodeOf(p) == CHOOSE n \in handle : Text(n.path) = p

\* the node is a dataset whose element 0 can be read
Readable(n) == n.kind = "dataset" /\ n.shape = "array" /\ n.data # <<>>

\* the container has the group _dectris at its root
HasDectrisGroup == Group(<<S("_dectris")>>) \in handle

\* the group _dectris holds nimages = n and ntrigger = t as one-element arrays
ConfigIs(n, t) ==
    /\ HasDectrisGroup
    /\ Array(<<S("_dectris"), S("nimages")>>, <<IntV(n)>>) \in handle
    /\ Array(<<S("_dectris"), S("ntrigger")>>, <<IntV(t)>>) \in handle

Continuous(n, t) == n >= 1 /\ t = 1
Triggered(n, t) == n = 1 /\ t > 1

\* C1: with the _dectris group present, a call of get_number_of_images does
\* not read walk, and when the group holds nimages = n and ntrigger = t the
\* call returns n if n >= 1 and t = 1, and t if n = 1 and t > 1, whatever
\* the tree search would find.
C1_CountFromConfig ==
    [][(lastOp' = "get_number_of_images" /\ HasDectrisGroup) =>
          /\ self'.walk = self.walk
          /\ \A n, t \in Counts :
                ConfigIs(n, t) =>
                    /\ Continuous(n, t) => result' = IntV(n)
                    /\ Triggered(n, t) => result' = IntV(t)]_vars

\* a triggered collection, with a dataset the tree search would find first
C1_Witness ==
    /\ lastOp = "get_number_of_images"
    /\ ConfigIs(1, MaxCount)
    /\ Array(<<S("Total_nimages")>>, <<IntV(MaxCount + 1)>>) \in handle
    /\ result = IntV(MaxCount)

\* C2: without the _dectris group and without a path containing "nimages",
\* get_number_of_images returns None.
C2_AbsentImageCount ==
    (/\ lastOp = "get_number_of_images"
     /\ ~HasDectrisGroup
     /\ PathsWith(S("nimages")) = <<>>)
    => result = None

\* C3: get_detector_size returns the elements read at the paths containing
\* "pixels_in_detector", last path of the traversal first, and None when no
\* path contains it; an element that cannot be read raises.
C3_DetectorSizeReversed ==
    lastOp = "get_detector_size" =>
        LET paths == PathsWith(S("pixels_in_detector"))
            k == Len(paths)
        IN  IF k = 0 THEN result = None
            ELSE IF \A i \in 1..k : Readable(NodeOf(paths[i]))
            THEN result = TupleV([i \in 1..k |-> NodeOf(paths[k + 1 - i]).data[1]])
            ELSE IsRaise(result)

\* x = 3 is traversed before y = 4, and (4, 3) is returned
C3_Witness ==
    /\ lastOp = "get_detector_size"
    /\ Traversal = <<S("x_pixels_in_detector"), S("y_pixels_in_detector")>>
    /\ result = TupleV(<<IntV(4), IntV(3)>>)

\* what find_mask / find_flatfield return by the claim, for a marker and
\* the substring of its companion
MarkerPair(marker, companion) ==
    IF ~ListIn(marker, Traversal) THEN TupleV(<<None, None>>)
    ELSE IF PathsWith(companion) = <<>> THEN TupleV(<<StrV(marker), None>>)
    ELSE TupleV(<<StrV(marker), StrV(PathsWith(companion)[1])>>)

\* C4: find_mask and find_flatfield return (None, None) without the marker
\* node, and with it the marker's path paired with the first path containing
\* the companion substring, or with None.
C4_MarkerAndCompanion ==
    /\ lastOp = "find_mask" => result = MarkerPair(S("mask"), S("mask_applied"))
    /\ lastOp = "find_flatfield" =>
           result = MarkerPair(S("flatfield"), S("flatfield_correction_applied"))

\* the root names that are "ts_qty_module" followed by exactly two digits
ModuleNames ==
    {n.path[1] : n \in
        {m \in handle :
            /\ Len(m.path) = 1
            /\ Len(m.path[1]) = Len(S("ts_qty_module")) + 2
            /\ SubSeq(m.path[1], 1, Len(S("ts_qty_module"))) = S("ts_qty_module")
            /\ m.path[1][Len(S("ts_qty_module")) + 1] \in Digits
            /\ m.path[1][Len(S("ts_qty_module")) + 2] \in Digits}}

\* C5: find_number_of_modules is the number of root names that are wholly
\* "ts_qty_module" and two digits, and isTristan is true exactly when that
\* number is at least 1.
C5_ModuleCount ==
    /\ lastOp = "find_number_of_modules" => result = IntV(Cardinality(ModuleNames))
    /\ lastOp = "isTristan" => result = BoolV(Cardinality(ModuleNames) >= 1)

\* two modules counted beside a name with three digits
C5_Witness ==
    /\ lastOp = "find_number_of_modules"
    /\ Group(<<S("ts_qty_module123")>>) \in handle
    /\ Group(<<S("ts_qty_module00")>>) \in handle
    /\ Group(<<S("ts_qty_module01")>>) \in handle
    /\ result = IntV(2)

\* C6: handle.visit is called at most once, and once walk is cached every
\* later read of walk returns the cached sequence.
C6_VisitOnce ==
    [][/\ self'.visits <= 1
       /\ self.walk.cached =>
              /\ self'.walk = self.walk
              /\ lastOp' = "walk" => result' = ListV(self.walk.val)]_vars

\* find_mask read walk three times and visited once
C6_Witness ==
    /\ lastOp = "find_mask"
    /\ result = TupleV(<<StrV(S("mask")), None>>)
    /\ self.visits = 1

\* the substring searched by a path-returning getter
NeedleOf(op) ==
    CASE op = "find_software_version" -> S("software_version")
      [] op = "find_threshold_energy" -> S("threshold_energy")
      [] op = "find_bit_depth_readout" -> S("bit_depth_readout")
      [] op = "find_bit_depth_image" -> S("bit_depth_image")
      [] op = "find_detector_number" -> S("detector_number")
      [] op = "find_detector_readout_time" -> S("detector_readout_time")
      [] op = "find_meta_version" -> S("meta_version")

PathGetters ==
    {"find_software_version", "find_threshold_energy", "find_bit_depth_readout",
     "find_bit_depth_image", "find_detector_number", "find_detector_readout_time",
     "find_meta_version"}

\* C7: a path-returning getter returns the first path of the traversal that
\* contains its substring, as a string, and None when no path contains it.
C7_FirstPath ==
    lastOp \in PathGetters =>
        LET T == Traversal
            hits == {i \in 1..Len(T) : StrIn(NeedleOf(lastOp), T[i])}
        IN  IF hits = {} THEN result = None
            ELSE \E i \in hits :
                    /\ \A j \in hits : i <= j
                    /\ result = StrV(T[i])

\* two paths contain the substring and the one in group "a" comes first
C7_Witness ==
    /\ lastOp = "find_bit_depth_image"
    /\ Array(<<S("bit_depth_image")>>, <<IntV(1)>>) \in handle
    /\ result = StrV(Text(<<S("a"), S("bit_depth_image")>>))

\* the members of the group _dectris
ConfigMembers == {n \in handle : Len(n.path) = 2 /\ n.path[1] = S("_dectris")}

\* the dataset is a one-element array
OneElement(n) == n.kind = "dataset" /\ n.shape = "array" /\ Len(n.data) = 1

\* the value-returning getters that read element 0 of the first match
ValueNeedleOf(op) ==
    CASE op = "get_wavelength" -> S("wavelength")
      [] op = "get_detector_distance" -> S("detector_distance")
      [] op = "get_saturation_value" -> S("countrate_correction_count_cutoff")
      [] op = "get_bit_depth_image" -> S("bit_depth_image")

ValueGetters ==
    {"get_wavelength", "get_detector_distance", "get_saturation_value",
     "get_bit_depth_image"}

\* C8 as claimed: no entry of read_dectris_config and no value returned by a
\* getter is raw bytes when the dataset read is a one-element array.
C8_AlwaysDecoded ==
    /\ (lastOp = "read_dectris_config" /\ "dict" \in DOMAIN result) =>
           \A n \in ConfigMembers :
               OneElement(n) => ~IsBytes(result.dict[Last(n.path)])
    /\ (lastOp = "get_sensor_information" /\ "tuple" \in DOMAIN result) =>
           (OneElement(NodeOf(PathsWith(S("sensor_material"))[1]))
               => ~IsBytes(result.tuple[1]))
    /\ (lastOp \in ValueGetters /\ PathsWith(ValueNeedleOf(lastOp)) # <<>>) =>
           (OneElement(NodeOf(PathsWith(ValueNeedleOf(lastOp))[1]))
               => ~IsBytes(result))

\* C8: read_dectris_config gives, for every member stored as a one-element
\* array, the element, a byte-string decoded to text; the value-returning
\* getters give element 0 of the dataset as it is stored, a byte-string as
\* raw bytes.
C8_DecodedInConfigOnly ==
    /\ (lastOp = "read_dectris_config" /\ "dict" \in DOMAIN result) =>
           \A n \in ConfigMembers :
               OneElement(n) =>
                   result.dict[Last(n.path)] =
                       (IF IsBytes(n.data[1]) THEN StrV(n.data[1].bytes) ELSE n.data[1])
    /\ (lastOp = "get_sensor_information" /\ "tuple" \in DOMAIN result) =>
           result.tuple[1] = NodeOf(PathsWith(S("sensor_material"))[1]).data[1]
    /\ (lastOp \in ValueGetters /\ ~IsRaise(result)) =>
           IF PathsWith(ValueNeedleOf(lastOp)) = <<>> THEN result = None
           ELSE result = NodeOf(PathsWith(ValueNeedleOf(lastOp))[1]).data[1]

\* a byte-string member of _dectris came out of read_dectris_config as text
C8_Witness ==
    /\ lastOp = "read_dectris_config"
    /\ Array(<<S("_dectris"), S("description")>>, <<BytesV(S("Si"))>>) \in handle
    /\ "dict" \in DOMAIN result
    /\ result.dict[S("description")] = StrV(S("Si"))

\* what a call gives on an instance on which nothing was called before
OnFresh(op) ==
    CASE op = "walk" -> ListV(walk(handle, Fresh).ret)
      [] op = "hasMask" -> BoolV(hasMask(handle, Fresh).ret)
      [] op = "hasFlatfield" -> BoolV(hasFlatfield(handle, Fresh).ret)
      [] op = "hasDectrisGroup" -> BoolV(hasDectrisGroup(handle, Fresh).ret)
      [] op = "hasConfig" -> BoolV(hasConfig(handle, Fresh).ret)
      [] op = "read_dectris_config" -> read_dectris_config(handle)
      [] op = "get_number_of_images" -> get_number_of_images(handle, Fresh).ret
      [] op = "get_detector_size" -> get_detector_size(handle, Fresh).ret
      [] op = "get_pixel_size" -> get_pixel_size(handle, Fresh).ret
      [] op = "get_beam_center" -> get_beam_center(handle, Fresh).ret
      [] op = "get_wavelength" -> get_wavelength(handle, Fresh).ret
      [] op = "get_detector_distance" -> get_detector_distance(handle, Fresh).ret
      [] op = "get_saturation_value" -> get_saturation_value(handle, Fresh).ret
      [] op = "get_sensor_information" -> get_sensor_information(handle, Fresh).ret
      [] op = "get_bit_depth_image" -> get_bit_depth_image(handle, Fresh).ret
      [] op = "find_mask" -> find_mask(handle, Fresh).ret
      [] op = "find_flatfield" -> find_flatfield(handle, Fresh).ret
      [] op = "find_software_version" ->
             IF IsDectrisMetafile THEN find_software_version(handle, Fresh).ret
             ELSE Tristan_find_software_version(handle, Fresh).ret
      [] op = "find_threshold_energy" -> find_threshold_energy(handle, Fresh).ret
      [] op = "find_bit_depth_readout" -> find_bit_depth_readout(handle, Fresh).ret
      [] op = "find_bit_depth_image" -> find_bit_depth_image(handle, Fresh).ret
      [] op = "find_detector_number" -> find_detector_number(handle, Fresh).ret
      [] op = "find_detector_readout_time" ->
             find_detector_readout_time(handle, Fresh).ret
      [] op = "isTristan" -> isTristan(handle)
      [] op = "find_number_of_modules" -> find_number_of_modules(handle, Fresh).ret
      [] op = "find_meta_version" -> find_meta_version(handle, Fresh).ret

\* C9: whatever was called before, and in whatever order, a call returns
\* what it returns as the first call on a new instance over the container.
C9_OrderIndependent ==
    lastOp # "none" => result = OnFresh(lastOp)

\* find_mask was called after the other caches had been filled
C9_Witness ==
    /\ lastOp = "find_mask"
    /\ self.hasFlatfield.cached
    /\ self.hasDectrisGroup.cached
    /\ self.hasConfig.cached
    /\ result = TupleV(<<StrV(S("mask")), None>>)

\* C10: with the _dectris group present and holding nimages = n and
\* ntrigger = t where neither n >= 1 and t = 1 nor n = 1 and t > 1,
\* get_number_of_images returns None.
C10_NoneOtherwise ==
    lastOp = "get_number_of_images" =>
        \A n, t \in Counts :
            (ConfigIs(n, t) /\ ~Continuous(n, t) /\ ~Triggered(n, t))
                => result = None

\* both counts above 1, and a dataset the tree search would find
C10_Witness ==
    /\ lastOp = "get_number_of_images"
    /\ ConfigIs(MaxCount, MaxCount)
    /\ Array(<<S("Total_nimages")>>, <<IntV(MaxCount + 1)>>) \in handle
    /\ result = None
====
